---- MODULE Spec2Model ----
(***************************************************************************)
(* Model of reddit_character_ai_config.py: the text cleaner                *)
(* (Conversation._clean_text), the extraction of conversation pairs        *)
(* (CharacterGenerator._extract_conversations), the ranking and packing    *)
(* (generate_character_definition, _build_definition) and the caller's     *)
(* treatment of the result (main).                                         *)
(*                                                                         *)
(* A Python str is modelled as a sequence of one-character strings, so     *)
(* that len() is Len and every regular expression of _clean_text is        *)
(* computed on the characters.                                             *)
(***************************************************************************)
EXTENDS Integers, Sequences, FiniteSets, TLC

VARIABLES
    \* ---- the pipeline (main calls generate_character_definition)
    pc,                \* position in main / generate_character_definition
    config,            \* the four limits set by CharacterGenerator.__init__
    username,          \* the username argument
    limit,             \* the limit argument
    n_comments,        \* len(comments), once the list has been fetched
    idx,               \* records the for loop of the extraction has consumed
    comment,           \* the loop variable of the extraction
    conversations,     \* the list built by _extract_conversations, then sorted
    definition_parts,  \* _build_definition: the parts appended so far
    current_length,    \* _build_definition: running total
    user_counter,      \* _build_definition: rotating placeholder counter
    pidx,              \* _build_definition: conversations its loop has consumed
    accepted,          \* the conversations whose blocks were appended, in order
    result,            \* what generate_character_definition returned or raised
    outcome,           \* what main did with it
    log,               \* logger.error events
    \* ---- the cleaner applied to its own output
    text,              \* a raw string
    once,              \* _clean_text(text)
    twice,             \* _clean_text(_clean_text(text))
    cpc

vars == <<pc, config, username, limit, n_comments, idx, comment, conversations,
          definition_parts, current_length, user_counter, pidx, accepted,
          result, outcome, log, text, once, twice, cpc>>

pipelineVars == <<pc, config, username, limit, n_comments, idx, comment,
                  conversations, definition_parts, current_length,
                  user_counter, pidx, accepted, result, outcome, log>>

cleanVars == <<text, once, twice, cpc>>

-----------------------------------------------------------------------------
(* Characters and character classes of Python's re module (str patterns),  *)
(* restricted to ASCII.                                                    *)

NL == "\n"

\* the grave accent (U+0060), which a TLA+ string cannot hold: one character
Backtick == "grave"

Lowercase == {"a","b","c","d","e","f","g","h","i","j","k","l","m",
              "n","o","p","q","r","s","t","u","v","w","x","y","z"}

Uppercase == {"A","B","C","D","E","F","G","H","I","J","K","L","M",
              "N","O","P","Q","R","S","T","U","V","W","X","Y","Z"}

Digits == {"0","1","2","3","4","5","6","7","8","9"}

\* \s
Space == {" ", "\t", "\n", "\r", "\f"}

\* \w
WordChar == Lowercase \cup Uppercase \cup Digits \cup {"_"}

\* the alternation of the URL pattern: [a-zA-Z] | [0-9] | [$-_@.&+] | [!*\\(\\),]
\* where $-_ is the range from "$" to "_"
UrlChar ==
    Lowercase \cup Uppercase \cup Digits
    \cup {"$","%","&","'","(",")","*","+",",","-",".","/",":",";","<","=",">",
          "?","@","[","\\","]","^","_"}
    \cup {"!"}

\* re.IGNORECASE, on the letters of the pattern EDIT:
ToLower(c) ==
    CASE c = "E" -> "e"
      [] c = "D" -> "d"
      [] c = "I" -> "i"
      [] c = "T" -> "t"
      [] OTHER -> c

Min(S) == CHOOSE x \in S : \A y \in S : x <= y

Max(S) == CHOOSE x \in S : \A y \in S : x >= y

\* the literal lit occurs in s at position p (1-based)
StartsWith(s, p, lit) ==
    /\ p >= 1
    /\ p + Len(lit) - 1 <= Len(s)
    /\ \A k \in 1..Len(lit) : s[p + k - 1] = lit[k]

StartsWithCI(s, p, lit) ==
    /\ p >= 1
    /\ p + Len(lit) - 1 <= Len(s)
    /\ \A k \in 1..Len(lit) : ToLower(s[p + k - 1]) = lit[k]

\* a greedy run of characters of class C from p: the position after it
SkipWhile(s, p, C) ==
    LET stops == {k \in p..Len(s) : s[k] \notin C}
    IN  IF stops = {} THEN Len(s) + 1 ELSE Min(stops)

\* ".*" from p, then "$" under re.MULTILINE: the position of the next
\* newline, or of the end of the string
EOL(s, p) ==
    LET stops == {k \in p..Len(s) : s[k] = NL}
    IN  IF stops = {} THEN Len(s) + 1 ELSE Min(stops)

\* "^" under re.MULTILINE
LineStart(s, p) == p = 1 \/ s[p - 1] = NL

NoMatch == [end |-> 0, repl |-> <<>>]

\* open(.+?)close -> \1 : the shortest non-empty run without a newline that
\* is followed by close
Wrap(s, p, open, close) ==
    IF ~StartsWith(s, p, open) THEN NoMatch
    ELSE LET q  == p + Len(open)
             ks == {k \in 1..(Len(s) - q + 1) :
                       /\ \A j \in q..(q + k - 1) : s[j] # NL
                       /\ StartsWith(s, q + k, close)}
         IN  IF ks = {} THEN NoMatch
             ELSE [end  |-> q + Min(ks) + Len(close),
                   repl |-> SubSeq(s, q, q + Min(ks) - 1)]

\* ^&gt;.*$
QuoteLine(s, p) ==
    IF LineStart(s, p) /\ StartsWith(s, p, <<"&","g","t",";">>)
    THEN [end |-> EOL(s, p + 4), repl |-> <<>>]
    ELSE NoMatch

\* ^\s*&gt;.*$
QuoteLineWs(s, p) ==
    LET w == SkipWhile(s, p, Space)
    IN  IF LineStart(s, p) /\ StartsWith(s, w, <<"&","g","t",";">>)
        THEN [end |-> EOL(s, w + 4), repl |-> <<>>]
        ELSE NoMatch

\* http[s]?://(...)+
Url(s, p) ==
    IF ~StartsWith(s, p, <<"h","t","t","p">>) THEN NoMatch
    ELSE LET q == IF StartsWith(s, p + 4, <<"s">>) THEN p + 5 ELSE p + 4
             r == q + 3
             e == SkipWhile(s, r, UrlChar)
         IN  IF StartsWith(s, q, <<":","/","/">>) /\ e > r
             THEN [end |-> e, repl |-> <<>>]
             ELSE NoMatch

\* lit\w+
Mention(s, p, lit) ==
    LET r == p + Len(lit)
        e == SkipWhile(s, r, WordChar)
    IN  IF StartsWith(s, p, lit) /\ e > r
        THEN [end |-> e, repl |-> <<>>]
        ELSE NoMatch

\* \n\s*\n\s*\n -> \n\n : from a newline, up to the last newline of the run
\* of white space, when that run holds three newlines
BlankLines(s, p) ==
    IF ~StartsWith(s, p, <<NL>>) THEN NoMatch
    ELSE LET e   == SkipWhile(s, p, Space)
             nls == {k \in p..(e - 1) : s[k] = NL}
         IN  IF Cardinality(nls) >= 3
             THEN [end |-> Max(nls) + 1, repl |-> <<NL, NL>>]
             ELSE NoMatch

\* [ \t]+ -> " "
Blanks(s, p) ==
    LET e == SkipWhile(s, p, {" ", "\t"})
    IN  IF e > p THEN [end |-> e, repl |-> <<" ">>] ELSE NoMatch

\* \s*EDIT:.*$ under re.IGNORECASE | re.MULTILINE
EditMarker(s, p) ==
    LET w == SkipWhile(s, p, Space)
    IN  IF StartsWithCI(s, w, <<"e","d","i","t",":">>)
        THEN [end |-> EOL(s, w + 5), repl |-> <<>>]
        ELSE NoMatch

\* the match of one of _clean_text's patterns at position p
MatchAt(rule, s, p) ==
    CASE rule = "bold"        -> Wrap(s, p, <<"*","*">>, <<"*","*">>)
      [] rule = "italic"      -> Wrap(s, p, <<"*">>, <<"*">>)
      [] rule = "strike"      -> Wrap(s, p, <<"~","~">>, <<"~","~">>)
      [] rule = "superscript" -> Wrap(s, p, <<"^">>, <<>>)
      [] rule = "code"        -> Wrap(s, p, <<Backtick>>, <<Backtick>>)
      [] rule = "quote"       -> QuoteLine(s, p)
      [] rule = "quote_ws"    -> QuoteLineWs(s, p)
      [] rule = "url"         -> Url(s, p)
      [] rule = "slash_u"     -> Mention(s, p, <<"/","u","/">>)
      [] rule = "u"           -> Mention(s, p, <<"u","/">>)
      [] rule = "slash_r"     -> Mention(s, p, <<"/","r","/">>)
      [] rule = "r"           -> Mention(s, p, <<"r","/">>)
      [] rule = "blank_lines" -> BlankLines(s, p)
      [] rule = "blanks"      -> Blanks(s, p)
      [] rule = "edit"        -> EditMarker(s, p)

\* re.sub: the leftmost non-overlapping matches, scanning from p
RECURSIVE re_sub_from(_, _, _, _)
re_sub_from(rule, s, p, acc) ==
    IF p > Len(s) THEN acc
    ELSE LET m == MatchAt(rule, s, p)
         IN  IF m.end = 0
             THEN re_sub_from(rule, s, p + 1, Append(acc, s[p]))
             ELSE re_sub_from(rule, s, m.end, acc \o m.repl)

re_sub(rule, s) == re_sub_from(rule, s, 1, <<>>)

\* str.strip()
strip(s) ==
    LET keep == {k \in 1..Len(s) : s[k] \notin Space}
    IN  IF keep = {} THEN <<>> ELSE SubSeq(s, Min(keep), Max(keep))

RECURSIVE apply_rules(_, _)
apply_rules(rules, s) ==
    IF rules = <<>> THEN s
    ELSE apply_rules(Tail(rules), re_sub(Head(rules), s))

\* Conversation._clean_text
clean_text(t) ==
    IF t = <<>> THEN <<>>
    ELSE LET marked == apply_rules(<<"bold", "italic", "strike", "superscript",
                                     "code", "quote", "quote_ws", "url",
                                     "slash_u", "u", "slash_r", "r",
                                     "blank_lines", "blanks">>, t)
         IN  apply_rules(<<"edit", "edit">>, strip(marked))

-----------------------------------------------------------------------------
(* Literal strings of the source.                                          *)

\* "This character is based on the Reddit user u/" (45 characters)
IntroPrefix ==
    <<"T","h","i","s"," ","c","h","a","r","a","c","t","e","r"," ","i","s",
      " ","b","a","s","e","d"," ","o","n"," ","t","h","e"," ","R","e","d",
      "d","i","t"," ","u","s","e","r"," ","u","/">>

\* ". Here are examples of how they typically respond:\n\n" (52 characters)
IntroSuffix ==
    <<"."," ","H","e","r","e"," ","a","r","e"," ","e","x","a","m","p","l",
      "e","s"," ","o","f"," ","h","o","w"," ","t","h","e","y"," ","t","y",
      "p","i","c","a","l","l","y"," ","r","e","s","p","o","n","d",":","\n",
      "\n">>

\* "No suitable conversations found for u/" (38 characters)
NoSuitablePrefix ==
    <<"N","o"," ","s","u","i","t","a","b","l","e"," ","c","o","n","v","e",
      "r","s","a","t","i","o","n","s"," ","f","o","u","n","d"," ","f","o",
      "r"," ","u","/">>

\* ". The user might have no public activity or all comments are too
\* short/long." (76 characters)
NoSuitableSuffix ==
    <<"."," ","T","h","e"," ","u","s","e","r"," ","m","i","g","h","t"," ",
      "h","a","v","e"," ","n","o"," ","p","u","b","l","i","c"," ","a","c",
      "t","i","v","i","t","y"," ","o","r"," ","a","l","l"," ","c","o","m",
      "m","e","n","t","s"," ","a","r","e"," ","t","o","o"," ","s","h","o",
      "r","t","/","l","o","n","g",".">>

\* "{{random_user_" and "}}"
PlaceholderPrefix ==
    <<"{","{","r","a","n","d","o","m","_","u","s","e","r","_">>

PlaceholderSuffix == <<"}","}">>

\* "{{char}}: "
CharLabel == <<"{","{","c","h","a","r","}","}",":"," ">>

\* "[deleted]" and "[removed]"
Deleted == <<"[","d","e","l","e","t","e","d","]">>

Removed == <<"[","r","e","m","o","v","e","d","]">>

\* str(n) for n >= 0
RECURSIVE str(_)
str(n) ==
    LET d == <<"0","1","2","3","4","5","6","7","8","9">>[(n % 10) + 1]
    IN  IF n < 10 THEN <<d>> ELSE Append(str(n \div 10), d)

\* "".join(parts)
RECURSIVE join(_)
join(parts) ==
    IF parts = <<>> THEN <<>> ELSE Head(parts) \o join(Tail(parts))

-----------------------------------------------------------------------------
(* The inputs of the model: texts, comment records, limits and usernames.  *)

\* "shall we go" / "sounds good"
ParentA == <<"s","h","a","l","l"," ","w","e"," ","g","o">>

BodyA == <<"s","o","u","n","d","s"," ","g","o","o","d">>

\* "what do you think of" / "that is a good point"
ParentB ==
    <<"w","h","a","t"," ","d","o"," ","y","o","u"," ","t","h","i","n","k",
      " ","o","f">>

BodyB ==
    <<"t","h","a","t"," ","i","s"," ","a"," ","g","o","o","d"," ","p","o",
      "i","n","t">>

\* a submission "Is this a good idea?" whose self-text is the quote line
\* "&gt; tl;dr", and the reply
\* "**nice** see http://x.co/a1 u/bob\nEDIT: typo"
TitleD ==
    <<"I","s"," ","t","h","i","s"," ","a"," ","g","o","o","d"," ","i","d",
      "e","a","?">>

SelftextD == <<"&","g","t",";"," ","t","l",";","d","r">>

BodyD ==
    <<"*","*","n","i","c","e","*","*"," ","s","e","e"," ","h","t","t","p",
      ":","/","/","x",".","c","o","/","a","1"," ","u","/","b","o","b","\n",
      "E","D","I","T",":"," ","t","y","p","o">>

\* "ok"
BodyS == <<"o","k">>

NoSubmission == [title |-> <<>>, selftext |-> <<>>]

ParentComment(body) == [kind |-> "comment", body |-> body]

\* a comment record as PRAW hands it over: body, score, is_root, submission
\* (title, selftext) and what parent() gives: a comment with a body, an
\* object without a body attribute, or an exception
CommentA ==
    [body |-> BodyA, score |-> 5, is_root |-> FALSE,
     submission |-> NoSubmission, parent |-> ParentComment(ParentA)]

CommentB ==
    [body |-> BodyB, score |-> 5, is_root |-> FALSE,
     submission |-> NoSubmission, parent |-> ParentComment(ParentB)]

CommentD ==
    [body |-> BodyD, score |-> -2, is_root |-> TRUE,
     submission |-> [title |-> TitleD, selftext |-> SelftextD],
     parent |-> [kind |-> "submission", body |-> <<>>]]

CommentRaises ==
    [body |-> BodyA, score |-> 7, is_root |-> FALSE,
     submission |-> NoSubmission, parent |-> [kind |-> "raises", body |-> <<>>]]

CommentShort ==
    [body |-> BodyS, score |-> 9, is_root |-> FALSE,
     submission |-> NoSubmission, parent |-> ParentComment(ParentA)]

CommentDeleted ==
    [body |-> Deleted, score |-> 1, is_root |-> FALSE,
     submission |-> NoSubmission, parent |-> ParentComment(ParentA)]

CommentNoBody ==
    [body |-> BodyB, score |-> 2, is_root |-> FALSE,
     submission |-> NoSubmission, parent |-> [kind |-> "submission", body |-> <<>>]]

Records ==
    {CommentA, CommentB, CommentD, CommentRaises, CommentShort,
     CommentDeleted, CommentNoBody}

\* the value of the loop variable before the first iteration and after
\* _extract_conversations has returned
NoComment ==
    [body |-> <<>>, score |-> 0, is_root |-> FALSE,
     submission |-> NoSubmission, parent |-> [kind |-> "none", body |-> <<>>]]

\* the limits set by CharacterGenerator.__init__
DefaultConfig ==
    [max_definition_length |-> 32000,
     max_single_conversation_length |-> 800,
     min_comment_length |-> 10,
     max_comment_length |-> 300]

\* the limits are public attributes, overridable after construction: a
\* generator whose per-conversation limit was lowered, and one whose length
\* window is empty (min_comment_length > max_comment_length)
NarrowConfig == [DefaultConfig EXCEPT !.max_single_conversation_length = 60]

MalformedConfig == [DefaultConfig EXCEPT !.min_comment_length = 301]

\* the most comment records a run hands over (the limit argument): under
\* the default limits with a short username, and in the other runs
MaxComments == 6

MaxCommentsFew == 3

\* the characters the lowered budget leaves after the intro of Bob
Room == 120

Bob == <<"b","o","b">>

NameOfLen(n) == [i \in 1..n |-> "x"]

IntroFixedLen == Len(IntroPrefix) + Len(IntroSuffix)

\* a generator whose total budget was lowered to the intro of Bob and Room
\* characters more
TightConfig ==
    [DefaultConfig EXCEPT !.max_definition_length = IntroFixedLen + Len(Bob) + Room]

\* the shortest username whose intro alone exceeds the default budget
GiantName ==
    NameOfLen(DefaultConfig.max_definition_length - IntroFixedLen + 1)

\* the calls generate_character_definition(username, limit) of the model
Inputs ==
    {[config |-> DefaultConfig,   username |-> Bob,       limit |-> MaxComments],
     [config |-> DefaultConfig,   username |-> GiantName, limit |-> MaxCommentsFew],
     [config |-> TightConfig,     username |-> Bob,       limit |-> MaxCommentsFew],
     [config |-> NarrowConfig,    username |-> Bob,       limit |-> MaxCommentsFew],
     [config |-> MalformedConfig, username |-> Bob,       limit |-> MaxCommentsFew]}

-----------------------------------------------------------------------------
(* Conversation and the operations of CharacterGenerator.                  *)

\* _clean_text on the texts of the model's records, computed once
CleanTable ==
    [t \in {ParentA, BodyA, ParentB, BodyB, BodyD, TitleD,
            TitleD \o <<NL>> \o SelftextD} |-> clean_text(t)]

cleaned(t) == IF t \in DOMAIN CleanTable THEN CleanTable[t] ELSE clean_text(t)

\* Conversation.format_for_character_ai
format_for_character_ai(conv, user_placeholder) ==
    user_placeholder \o <<":", " ">> \o cleaned(conv.original_text) \o <<NL>>
        \o CharLabel \o cleaned(conv.reply_text) \o <<NL, NL>>

\* f"{{{{random_user_{user_counter}}}}}"
placeholder(counter) ==
    PlaceholderPrefix \o str(counter) \o PlaceholderSuffix

\* the intro line of _build_definition
intro(name) == IntroPrefix \o name \o IntroSuffix

\* the message generate_character_definition returns without conversations
no_suitable(name) == NoSuitablePrefix \o name \o NoSuitableSuffix

\* max(comment.score, 0)
clamp(score) == IF score > 0 THEN score ELSE 0

fits_single_always(cfg, conv) == TRUE

\* formatted_length <= self.max_single_conversation_length
fits_single(cfg, conv) ==
    Len(format_for_character_ai(conv, placeholder(1)))
        <= cfg.max_single_conversation_length

Skipped == [raised |-> FALSE, kept |-> <<>>]

Raised == [raised |-> TRUE, kept |-> <<>>]

\* the body of the for loop of _extract_conversations on one record: whether
\* it raised, and the conversations it appended
process_comment(cfg, c) ==
    IF c.body = <<>> \/ c.body \in {Deleted, Removed} THEN Skipped
    ELSE IF \/ Len(c.body) < cfg.min_comment_length
            \/ Len(c.body) > cfg.max_comment_length THEN Skipped
    ELSE IF ~c.is_root /\ c.parent.kind = "raises" THEN Raised
    ELSE IF ~c.is_root /\ c.parent.kind # "comment" THEN Skipped
    ELSE LET selftext == c.submission.selftext
             parent_text ==
                 IF c.is_root
                 THEN IF selftext # <<>> /\ Len(selftext) < cfg.max_comment_length
                      THEN c.submission.title \o <<NL>> \o selftext
                      ELSE c.submission.title
                 ELSE c.parent.body
             conv == [original_text |-> parent_text,
                      reply_text    |-> c.body,
                      score         |-> clamp(c.score),
                      length        |-> Len(parent_text) + Len(c.body)]
         IN  IF \/ parent_text = <<>>
                \/ Len(parent_text) < cfg.min_comment_length
                \/ Len(parent_text) > cfg.max_comment_length THEN Skipped
             ELSE IF fits_single(cfg, conv)
                  THEN [raised |-> FALSE, kept |-> <<conv>>]
                  ELSE Skipped

after_raise_abort(i, n) == n

\* where the for loop stands after the inner except clause: at the next
\* record (continue)
after_raise(i, n) == i + 1

fetch_error_propagates == TRUE

\* whether an exception of user.comments.new leaves _extract_conversations:
\* the outer except clause logs it and falls through to the return
fetch_error_raised == FALSE

sort_key_longer_first(x) == <<x.score, x.length>>

\* key=lambda x: (x.score, -x.length)
sort_key(x) == <<x.score, -x.length>>

\* the order of two key tuples
key_greater(k1, k2) == k1[1] > k2[1] \/ (k1[1] = k2[1] /\ k1[2] > k2[2])

\* list.sort(reverse=True) is stable: an element goes after its equals
RECURSIVE insert_desc(_, _)
insert_desc(x, s) ==
    IF s = <<>> THEN <<x>>
    ELSE IF key_greater(sort_key(x), sort_key(Head(s))) THEN <<x>> \o s
    ELSE <<Head(s)>> \o insert_desc(x, Tail(s))

RECURSIVE sort_from(_, _)
sort_from(list, acc) ==
    IF list = <<>> THEN acc
    ELSE sort_from(Tail(list), insert_desc(Head(list), acc))

\* conversations.sort(key=..., reverse=True)
sort(list) == sort_from(list, <<>>)

next_counter_mod6(counter) == (counter % 6) + 1

\* user_counter = (user_counter % 5) + 1
next_counter(counter) == (counter % 5) + 1

on_overflow_continue == "pack"

\* where _build_definition stands after a conversation that does not fit:
\* out of the loop (break)
on_overflow == "stopped"

-----------------------------------------------------------------------------
(* The pipeline: main calls generate_character_definition.                 *)

NoResult == [raised |-> FALSE, value |-> <<>>]

CleanIdle == text = <<>> /\ once = <<>> /\ twice = <<>> /\ cpc = "idle"

Init ==
    /\ \E in \in Inputs :
          /\ config = in.config
          /\ username = in.username
          /\ limit = in.limit
    /\ pc = "start"
    /\ n_comments = 0
    /\ idx = 0
    /\ comment = NoComment
    /\ conversations = <<>>
    /\ definition_parts = <<>>
    /\ current_length = 0
    /\ user_counter = 0
    /\ pidx = 0
    /\ accepted = <<>>
    /\ result = NoResult
    /\ outcome = "none"
    /\ log = {}
    /\ CleanIdle

\* line 122: the comment list arrives, with at most limit records
Fetch ==
    /\ pc = "start"
    /\ \E n \in 0..limit : n_comments' = n
    /\ pc' = "extract"
    /\ UNCHANGED <<config, username, limit, idx, comment, conversations,
                   definition_parts, current_length, user_counter, pidx,
                   accepted, result, outcome, log, cleanVars>>

\* line 122 raises: lines 172-175
FetchFails ==
    /\ pc = "start"
    /\ log' = log \cup {"fetch_error"}
    /\ IF fetch_error_raised
       THEN /\ result' = [raised |-> TRUE, value |-> <<>>]
            /\ pc' = "returned"
       ELSE /\ result' = result
            /\ pc' = "extracted"
    /\ UNCHANGED <<config, username, limit, n_comments, idx, comment,
                   conversations, definition_parts, current_length,
                   user_counter, pidx, accepted, outcome, cleanVars>>

\* lines 125-170: one iteration of the for loop
ExtractStep ==
    /\ pc = "extract"
    /\ idx < n_comments
    /\ \E c \in Records :
          LET r == process_comment(config, c)
          IN  /\ comment' = c
              /\ conversations' = conversations \o r.kept
              /\ idx' = IF r.raised THEN after_raise(idx, n_comments)
                                    ELSE idx + 1
    /\ UNCHANGED <<pc, config, username, limit, n_comments, definition_parts,
                   current_length, user_counter, pidx, accepted, result,
                   outcome, log, cleanVars>>

\* line 175: the loop is over
ExtractReturn ==
    /\ pc = "extract"
    /\ idx = n_comments
    /\ pc' = "extracted"
    /\ comment' = NoComment
    /\ UNCHANGED <<config, username, limit, n_comments, idx, conversations,
                   definition_parts, current_length, user_counter, pidx,
                   accepted, result, outcome, log, cleanVars>>

\* lines 99-100
ReturnNoSuitable ==
    /\ pc = "extracted"
    /\ conversations = <<>>
    /\ result' = [raised |-> FALSE, value |-> no_suitable(username)]
    /\ pc' = "returned"
    /\ UNCHANGED <<config, username, limit, n_comments, idx, comment,
                   conversations, definition_parts, current_length,
                   user_counter, pidx, accepted, outcome, log, cleanVars>>

\* lines 105-107 and 179-186: the sort, then _build_definition up to its loop
SortAndIntro ==
    /\ pc = "extracted"
    /\ conversations # <<>>
    /\ conversations' = sort(conversations)
    /\ definition_parts' = <<intro(username)>>
    /\ current_length' = Len(intro(username))
    /\ user_counter' = 1
    /\ pidx' = 0
    /\ pc' = "pack"
    /\ UNCHANGED <<config, username, limit, n_comments, idx, comment,
                   accepted, result, outcome, log, cleanVars>>

\* lines 188-201: one iteration of the for loop of _build_definition
PackStep ==
    /\ pc = "pack"
    /\ pidx < Len(conversations)
    /\ LET conv == conversations[pidx + 1]
           formatted_conv ==
               format_for_character_ai(conv, placeholder(user_counter))
       IN  IF current_length + Len(formatted_conv) > config.max_definition_length
           THEN /\ pc' = on_overflow
                /\ UNCHANGED <<definition_parts, current_length, user_counter,
                               accepted>>
           ELSE /\ pc' = pc
                /\ definition_parts' = Append(definition_parts, formatted_conv)
                /\ current_length' = current_length + Len(formatted_conv)
                /\ user_counter' = next_counter(user_counter)
                /\ accepted' = Append(accepted, conv)
    /\ pidx' = pidx + 1
    /\ UNCHANGED <<config, username, limit, n_comments, idx, comment,
                   conversations, result, outcome, log, cleanVars>>

\* lines 203-206 and 109-110
BuildReturn ==
    /\ \/ pc = "pack" /\ pidx = Len(conversations)
       \/ pc = "stopped"
    /\ result' = [raised |-> FALSE, value |-> join(definition_parts)]
    /\ pc' = "returned"
    /\ UNCHANGED <<config, username, limit, n_comments, idx, comment,
                   conversations, definition_parts, current_length,
                   user_counter, pidx, accepted, outcome, log, cleanVars>>

\* lines 280-308: what main does with the call
Main ==
    /\ pc = "returned"
    /\ outcome' = IF result.raised THEN "error"
                  ELSE IF result.value = <<>> THEN "no_content"
                  ELSE "definition"
    /\ pc' = "done"
    /\ UNCHANGED <<config, username, limit, n_comments, idx, comment,
                   conversations, definition_parts, current_length,
                   user_counter, pidx, accepted, result, log, cleanVars>>

Next ==
    \/ Fetch
    \/ FetchFails
    \/ ExtractStep
    \/ ExtractReturn
    \/ ReturnNoSuitable
    \/ SortAndIntro
    \/ PackStep
    \/ BuildReturn
    \/ Main

Spec == Init /\ [][Next]_vars

-----------------------------------------------------------------------------
(* The cleaner applied to its own output, on every short string over a     *)
(* small alphabet.                                                         *)

MaxTextLen == 4

CleanAlphabet == {"a", "*", "^", "~", " ", NL}

RawTexts == UNION {[1..n -> CleanAlphabet] : n \in 0..MaxTextLen}

PipelineIdle ==
    /\ pc = "idle"
    /\ config = DefaultConfig
    /\ username = <<>>
    /\ limit = 0
    /\ n_comments = 0
    /\ idx = 0
    /\ comment = NoComment
    /\ conversations = <<>>
    /\ definition_parts = <<>>
    /\ current_length = 0
    /\ user_counter = 0
    /\ pidx = 0
    /\ accepted = <<>>
    /\ result = NoResult
    /\ outcome = "none"
    /\ log = {}

CleanInit ==
    /\ PipelineIdle
    /\ text \in RawTexts
    /\ once = <<>>
    /\ twice = <<>>
    /\ cpc = "raw"

CleanOnce ==
    /\ cpc = "raw"
    /\ once' = clean_text(text)
    /\ cpc' = "once"
    /\ UNCHANGED <<text, twice, pipelineVars>>

CleanTwice ==
    /\ cpc = "once"
    /\ twice' = clean_text(once)
    /\ cpc' = "twice"
    /\ UNCHANGED <<text, once, pipelineVars>>

CleanNext == CleanOnce \/ CleanTwice

SpecClean == CleanInit /\ [][CleanNext]_vars

-----------------------------------------------------------------------------
(* The claims.                                                             *)

Built == pc \in {"pack", "stopped", "returned", "done"} /\ definition_parts # <<>>

Returned == pc \in {"returned", "done"}

\* C1: the string the packer returns is never longer than
\* max_definition_length, whatever the conversations and the username.
C1_BudgetInvariant ==
    (Returned /\ definition_parts # <<>>)
        => Len(result.value) <= config.max_definition_length

\* C2 as stated: adjacent accepted conversations are ordered by descending
\* score and, among equal scores, the greater combined length comes first.
C2_LongerFirst ==
    \A n \in 1..(Len(accepted) - 1) :
        \/ accepted[n].score > accepted[n + 1].score
        \/ /\ accepted[n].score = accepted[n + 1].score
           /\ accepted[n].length >= accepted[n + 1].length

\* C2 as amended: adjacent accepted conversations are ordered by descending
\* score and, among equal scores, the smaller combined length comes first.
C2_ShorterFirst ==
    \A n \in 1..(Len(accepted) - 1) :
        \/ accepted[n].score > accepted[n + 1].score
        \/ /\ accepted[n].score = accepted[n + 1].score
           /\ accepted[n].length <= accepted[n + 1].length

\* an artifact that holds a tie of scores with different lengths, and a
\* strict descent of scores
C2_Witness ==
    /\ pc = "done"
    /\ \E n \in 1..(Len(accepted) - 1) :
          /\ accepted[n].score = accepted[n + 1].score
          /\ accepted[n].length < accepted[n + 1].length
    /\ \E n \in 1..(Len(accepted) - 1) :
          accepted[n].score > accepted[n + 1].score

\* the conversation at position j of the sorted list would still fit
WouldFit(j) ==
    current_length
        + Len(format_for_character_ai(conversations[j], placeholder(user_counter)))
      <= config.max_definition_length

\* C3: the accepted conversations are a prefix of the packer's input order,
\* and the packer stops at the first conversation that does not fit: nothing
\* after it is appended.
C3_StopNotSkip ==
    Built =>
        /\ Len(definition_parts) = Len(accepted) + 1
        /\ Len(accepted) <= pidx
        /\ accepted = SubSeq(conversations, 1, Len(accepted))
        /\ (pc # "pack" /\ Len(accepted) < Len(conversations))
              => ~WouldFit(Len(accepted) + 1)

\* the packer has stopped at a conversation that does not fit, and a later
\* one would have fitted
C3_Witness ==
    /\ pc = "done"
    /\ Len(accepted) >= 1
    /\ \E j \in (Len(accepted) + 2)..Len(conversations) : WouldFit(j)

\* C4: the n-th accepted conversation is rendered with {{random_user_c}},
\* c = ((n-1) mod 5) + 1; the counter starts at 1, stays in 1..5 and
\* advances once per accepted conversation.
C4_PlaceholderRotation ==
    Built =>
        /\ user_counter \in 1..5
        /\ user_counter = (Len(accepted) % 5) + 1
        /\ \A n \in 1..Len(accepted) :
              StartsWith(definition_parts[n + 1], 1,
                         placeholder(((n - 1) % 5) + 1) \o <<":">>)

\* six conversations were accepted: the counter has wrapped from 5 to 1
C4_Witness == pc = "done" /\ Len(accepted) >= 6

\* C5: every conversation block of the artifact is at most
\* max_single_conversation_length long under the placeholder it is emitted
\* with.
C5_PerItem ==
    \A n \in 2..Len(definition_parts) :
        Len(definition_parts[n]) <= config.max_single_conversation_length

\* a block of exactly the limit emitted with a counter other than 1
C5_Witness ==
    /\ pc = "done"
    /\ \E n \in 3..Len(definition_parts) :
          Len(definition_parts[n]) = config.max_single_conversation_length

\* C6: a record whose processing raises is rejected alone: the loop goes on
\* with the next record, the conversations retained so far are kept, and
\* nothing leaves the extraction; every record of the list is processed.
C6_FailureIsolation ==
    /\ [][(pc = "extract" /\ idx' # idx /\ process_comment(config, comment').raised)
            => /\ pc' = "extract"
               /\ idx' = idx + 1
               /\ conversations' = conversations
               /\ result' = result]_vars
    /\ []((pc = "extracted" /\ "fetch_error" \notin log) => idx = n_comments)

\* a record has raised after conversations were retained, and records remain
C6_Witness ==
    /\ pc = "extract"
    /\ comment = CommentRaises
    /\ Len(conversations) >= 1
    /\ idx < n_comments

\* C7: when no conversation survives, the caller flags the result as
\* "no content" and does not treat it as a definition.
C7_NoContentFlagged ==
    (pc = "done" /\ conversations = <<>> /\ ~result.raised)
        => outcome = "no_content"

\* C8: with min_comment_length > max_comment_length no record is processed
\* and the call ends in an error, not in the empty result.
C8_ConfigFailFast ==
    (config.min_comment_length > config.max_comment_length)
        => /\ idx = 0
           /\ Returned => result.raised

\* C9: cleaning a cleaned string changes nothing.
C9_Idempotent == cpc = "twice" => twice = once

\* C10: a failure of the fetch of the comment list is swallowed: the call
\* returns, without raising, the message it returns for a user without
\* usable comments.
C10_FetchFailureSwallowed ==
    /\ "fetch_error" \in log
          => /\ conversations = <<>>
             /\ ~result.raised
             /\ outcome # "error"
    /\ (Returned /\ conversations = <<>>)
          => result = [raised |-> FALSE, value |-> no_suitable(username)]

\* the fetch has failed and the caller has the message
C10_Witness ==
    /\ pc = "done"
    /\ "fetch_error" \in log
    /\ result.value = no_suitable(username)
    /\ outcome = "definition"

====
